---- MODULE Spec2Model ----
(***************************************************************************)
(* State machine of the chat server with the Laravel bridge                *)
(* (src/MessengerServer.js, lines 373-1219): the three registries users,   *)
(* rooms and messageHistory, the set laravelSockets, the per-socket        *)
(* closure state (isLaravelClient, dataBuffer), the socket.io room         *)
(* subscriptions and the pending history-purge timers.                     *)
(*                                                                         *)
(* Strings are sequences of one-character strings, so that trim, split,   *)
(* toLowerCase, length and the name patterns are computed, not assumed.    *)
(* Time is the clock in ms, advancing in steps of half the purge delay.    *)
(*                                                                         *)
(* A handler that returns at once because socket.isLaravelClient has the   *)
(* wrong value is a disabled action; under NextGuard the event is a step   *)
(* of its own, Ignored, that writes nothing.  The events a step emits are  *)
(* kept, in order and with the sockets each one is delivered to, in        *)
(* emitted.                                                                *)
(* Events that change the state draw on a budget, which bounds the runs.   *)
(*                                                                         *)
(* The handlers typing, stop_typing, get_rooms, get_room_users and         *)
(* laravel_emit write no registry; they step under NextQuery (and          *)
(* laravel_emit under NextBridge), and not under Next, whose reachable     *)
(* registries they cannot change.                                          *)
(*                                                                         *)
(* The notification server of lines 143-240 (connectedUsers, register,     *)
(* disconnect) steps under NextNotif, and sanitizeInput alone, over a      *)
(* bounded set of input strings, under NextSanitize.                       *)
(***************************************************************************)
EXTENDS Integers, Sequences, FiniteSets, TLC

\* ---------------------------------------------------------------- bounds
NumConns == 2
MaxSteps == 4
MaxTicks == 2

\* ------------------------------------------------------ program constants
MAX_MESSAGE_HISTORY == 50
MAX_USERNAME_LENGTH == 20
MAX_MESSAGE_LENGTH == 500
MAX_ROOM_NAME_LENGTH == 30
\* the delay of both setTimeout calls, in ms
PURGE_DELAY == 300000
\* the clock advances in steps of half the purge delay
TickMs == PURGE_DELAY \div 2

Conns == 1..NumConns

\* ---------------------------------------------------------------- strings
Lowers == {"a","b","c","d","e","f","g","h","i","j","k","l","m",
           "n","o","p","q","r","s","t","u","v","w","x","y","z"}
Uppers == {"A","B","C","D","E","F","G","H","I","J","K","L","M",
           "N","O","P","Q","R","S","T","U","V","W","X","Y","Z"}
Digits == {"0","1","2","3","4","5","6","7","8","9"}
Whitespace == {" ", "\n"}

LowerOf == [ch \in Uppers |->
    CASE ch = "A" -> "a" [] ch = "B" -> "b" [] ch = "C" -> "c" [] ch = "D" -> "d"
      [] ch = "E" -> "e" [] ch = "F" -> "f" [] ch = "G" -> "g" [] ch = "H" -> "h"
      [] ch = "I" -> "i" [] ch = "J" -> "j" [] ch = "K" -> "k" [] ch = "L" -> "l"
      [] ch = "M" -> "m" [] ch = "N" -> "n" [] ch = "O" -> "o" [] ch = "P" -> "p"
      [] ch = "Q" -> "q" [] ch = "R" -> "r" [] ch = "S" -> "s" [] ch = "T" -> "t"
      [] ch = "U" -> "u" [] ch = "V" -> "v" [] ch = "W" -> "w" [] ch = "X" -> "x"
      [] ch = "Y" -> "y" [] ch = "Z" -> "z"]

\* String.prototype.toLowerCase
toLowerCase(s) == [i \in 1..Len(s) |-> IF s[i] \in Uppers THEN LowerOf[s[i]] ELSE s[i]]

RECURSIVE TrimStart(_)
TrimStart(s) == IF s # <<>> /\ Head(s) \in Whitespace THEN TrimStart(Tail(s)) ELSE s

RECURSIVE TrimEnd(_)
TrimEnd(s) ==
    IF s # <<>> /\ s[Len(s)] \in Whitespace THEN TrimEnd(SubSeq(s, 1, Len(s) - 1)) ELSE s

\* String.prototype.trim
trim(s) == TrimEnd(TrimStart(s))

\* String.prototype.substring(0, n)
substring0(s, n) == SubSeq(s, 1, IF Len(s) < n THEN Len(s) ELSE n)

\* String.prototype.split('\n'): always at least one piece
RECURSIVE split(_)
split(s) ==
    IF \E i \in 1..Len(s) : s[i] = "\n"
    THEN LET i == CHOOSE k \in 1..Len(s) :
                      s[k] = "\n" /\ \A j \in 1..(k - 1) : s[j] # "\n"
         IN <<SubSeq(s, 1, i - 1)>> \o split(SubSeq(s, i + 1, Len(s)))
    ELSE <<s>>

Rep(ch, n) == [i \in 1..n |-> ch]

NameChars == Lowers \cup Uppers \cup Digits \cup {"_", "-"}

\* the regular expression /^[a-zA-Z0-9_-]+$/
MatchesNamePattern(s) ==
    /\ s # <<>>
    /\ \A i \in 1..Len(s) : s[i] \in NameChars

\* sanitizeInput without the substring
sanitizeInputNoLimit(input) == trim(input)

sanitizeInput(input) == substring0(trim(input), MAX_MESSAGE_LENGTH)

\* isValidUsername without the pattern test
isValidUsernameNoPattern(username) ==
    /\ username # <<>>
    /\ Len(username) <= MAX_USERNAME_LENGTH

isValidUsername(username) ==
    /\ username # <<>>
    /\ Len(username) <= MAX_USERNAME_LENGTH
    /\ MatchesNamePattern(username)

\* isValidRoomName without the pattern test
isValidRoomNameNoPattern(roomName) ==
    /\ roomName # <<>>
    /\ Len(roomName) <= MAX_ROOM_NAME_LENGTH

isValidRoomName(roomName) ==
    /\ roomName # <<>>
    /\ Len(roomName) <= MAX_ROOM_NAME_LENGTH
    /\ MatchesNamePattern(roomName)

\* ----------------------------------------------------------------- inputs
General == <<"g","e","n","e","r","a","l">>
R1 == <<"r","1">>
Undefined == <<"undefined">>
\* socket.id of socket c as a string: 20 characters of [A-Za-z0-9_-] in socket.io,
\* three here
DigitChars == <<"1", "2", "3", "4", "5", "6", "7", "8", "9">>
SocketId(c) == <<"i", "d", DigitChars[c]>>
ValidRooms == {R1, General}
InvalidRooms == {<<"r"," ","1">>, Rep("r", MAX_ROOM_NAME_LENGTH + 1), <<>>}
RoomInputs == ValidRooms \cup InvalidRooms
ValidUsernames == {<<"A">>, <<"a">>, <<"B">>}
InvalidUsernames == {<<"a","b"," ","c","d">>, Rep("u", MAX_USERNAME_LENGTH + 1), <<>>}
\* the userData of join: every valid pair (a missing room defaults to general), each
\* invalid name or room once, and once a room named like the id of the first socket
JoinInputs ==
    (ValidUsernames \X {R1, Undefined})
        \cup (InvalidUsernames \X {R1}) \cup ({<<"B">>} \X InvalidRooms)
        \cup {<<(<<"B">>), SocketId(1)>>}
LARAVEL_CLIENT == <<"L","A","R","A","V","E","L","_","C","L","I","E","N","T">>
ContentInputs == {<<"h","i">>, <<" ">>}
\* the data of send_private_message: <<targetUsername, content>>
PrivateInputs ==
    {<<(<<"A">>), (<<"h","i">>)>>, <<(<<"b">>), (<<"h","i">>)>>,
     <<Undefined, (<<"h","i">>)>>, <<(<<"A">>), (<<" ">>)>>}

\* JSON documents of the bridge, each abbreviated to one letter; every other line
\* is no JSON
Documents ==
    [ch \in {"m", "t", "c", "d", "k", "n", "e", "p", "o", "g", "h", "q", "u"} |->
        CASE ch = "m" -> [type |-> "emit_to_room", room |-> R1, event |-> "receive_message"]
          [] ch = "t" -> [type |-> "emit_to_room", room |-> General, event |-> "user_typing"]
          [] ch = "c" -> [type |-> "room_created", room |-> R1, roomType |-> "collaboration",
                          newUser |-> <<"u">>]
          [] ch = "d" -> [type |-> "room_created", room |-> General, roomType |-> "direct",
                          newUser |-> <<"u">>]
          [] ch = "k" -> [type |-> "room_created", room |-> Undefined, roomType |-> "direct",
                          newUser |-> <<"u">>]
          [] ch = "n" -> [type |-> "room_created", room |-> General,
                          roomType |-> "collaboration", newUser |-> Undefined]
          [] ch = "e" -> [type |-> "emit", event |-> "notice"]
          [] ch = "p" -> [type |-> "presence_update", room |-> R1]
          [] ch = "o" -> [type |-> "presence_update", room |-> Undefined]
          [] ch = "g" -> [type |-> "ping"]
          [] ch = "h" -> [type |-> "heartbeat"]
          [] ch = "q" -> [type |-> "disconnect"]
          [] ch = "u" -> [type |-> "unknown"]]

SyntaxError == [type |-> "SyntaxError"]

\* JSON.parse, which skips the white space around the document
JSONparse(str) ==
    LET t == trim(str)
    IN IF Len(t) = 1 /\ t[1] \in DOMAIN Documents THEN Documents[t[1]] ELSE SyntaxError

\* the raw frames a socket sends
FrameInputs ==
    { LARAVEL_CLIENT,
      <<"m", "\n">>,
      <<"m", "\n", "t">>,
      <<"\n", "t", "\n", "h">>,
      <<"c", "\n", "x", "\n", "k", "\n", "d", "\n", "e">>,
      <<"e", "\n", "o", "\n">>,
      <<"g", "\n", "u", "\n", " ", "\n", "p", "\n", "q">> }

\* ------------------------------------------------------------------ state
VARIABLES
    conn,             \* socket lifecycle: "new" (not yet connected), "open", "closed"
    isLaravelClient,  \* socket.isLaravelClient (and the closure flag set with it)
    dataBuffer,       \* closure variable dataBuffer of each socket
    sioRooms,         \* socket.io room subscriptions (socket.join / socket.leave), with
                      \* the room named by its own id that every connected socket is in
    users,            \* Map socket.id -> user record
    rooms,            \* Map room name -> Set of socket ids
    messageHistory,   \* Map room name -> array of events
    laravelSockets,   \* Set of socket ids
    timers,           \* pending setTimeout purge callbacks: [room, due]
    now,              \* the clock (Date.now()), in ms
    appended,         \* history: per room, every event appended since the last purge
    last,             \* history: the event processed by the last step
    emitted,          \* history: the events that step emitted, in order: [to, event, room, payload]
    budget            \* number of further state-changing events the model will process

\* The notification server (the first server of the file) and the input and result of
\* sanitizeInput taken alone; the chat server's handlers leave them as they are.
VARIABLES
    connectedUsers,   \* the object connectedUsers: userId -> socket.id
    notifSockets,     \* lifecycle of the notification server's sockets, as conn
    input,            \* the argument handed to sanitizeInput
    output            \* what sanitizeInput returned for it, Undefined before the call

otherVars == <<connectedUsers, notifSockets, input, output>>

vars == <<conn, isLaravelClient, dataBuffer, sioRooms, users, rooms, messageHistory,
          laravelSockets, timers, now, appended, last, emitted, budget, otherVars>>

\* Map helpers
MapSet(m, k, v) == [x \in DOMAIN m \cup {k} |-> IF x = k THEN v ELSE m[x]]
MapDelete(m, k) == [x \in DOMAIN m \ {k} |-> m[x]]
EmptyMap == [x \in {} |-> {}]

\* ---------------------------------------------------------------- history
\* addToMessageHistory with pop() in place of shift(): evicts the newest
addToMessageHistoryDropNewest(hist, room, message) ==
    LET history == IF room \in DOMAIN hist THEN hist[room] ELSE <<>>
        pushed == Append(history, message)
    IN MapSet(hist, room,
              IF Len(pushed) > MAX_MESSAGE_HISTORY
              THEN SubSeq(pushed, 1, Len(pushed) - 1) ELSE pushed)

\* addToMessageHistory without the length check: never evicts
addToMessageHistoryNoEvict(hist, room, message) ==
    MapSet(hist, room, Append(IF room \in DOMAIN hist THEN hist[room] ELSE <<>>, message))

\* addToMessageHistory that starts the array anew on every call
addToMessageHistoryReplace(hist, room, message) == MapSet(hist, room, <<message>>)

addToMessageHistory(hist, room, message) ==
    LET history == IF room \in DOMAIN hist THEN hist[room] ELSE <<>>
        pushed == Append(history, message)
    IN MapSet(hist, room,
              IF Len(pushed) > MAX_MESSAGE_HISTORY THEN Tail(pushed) ELSE pushed)

getMessageHistory(hist, room) == IF room \in DOMAIN hist THEN hist[room] ELSE <<>>

\* the log kept beside messageHistory: the same append, without eviction
LogAppend(log, room, message) ==
    MapSet(log, room, Append(IF room \in DOMAIN log THEN log[room] ELSE <<>>, message))

SystemMessage(username, what, room) ==
    [type |-> "system", content |-> <<username, what>>, room |-> room]

\* --------------------------------------------------------------- emitting
\* the sockets in a socket.io room
Subscribers(sio, room) == {d \in Conns : room \in sio[d]}

\* io.emit in place of socket.emit
socketEmitToAll(c, event, payload) ==
    [to |-> {d \in Conns : conn[d] = "open"}, event |-> event, room |-> <<>>,
     payload |-> payload]

\* socket.emit(event, payload)
socketEmit(c, event, payload) ==
    [to |-> {c}, event |-> event, room |-> <<>>, payload |-> payload]

\* io.to(room).emit(event, payload)
ioToEmit(sio, room, event, payload) ==
    [to |-> Subscribers(sio, room), event |-> event, room |-> room, payload |-> payload]

\* a broadcast that does not leave out the sending socket
socketToEmitWithSender(sio, c, room, event, payload) ==
    [to |-> Subscribers(sio, room), event |-> event, room |-> room, payload |-> payload]

\* socket.to(room).emit(event, payload)
socketToEmit(sio, c, room, event, payload) ==
    [to |-> Subscribers(sio, room) \ {c}, event |-> event, room |-> room,
     payload |-> payload]

\* io.emit(event, payload)
ioEmit(event, payload) ==
    [to |-> {d \in Conns : conn[d] = "open"}, event |-> event, room |-> <<>>,
     payload |-> payload]

\* Array.from(rooms.get(room) || []).map(id => users.get(id)).filter(u => u), as a set
roomUsers(rs, us, room) ==
    {us[id] : id \in (IF room \in DOMAIN rs THEN rs[room] ELSE {}) \cap DOMAIN us}

\* ------------------------------------------------------------------- init
\* before any event of the notification server and any call of sanitizeInput alone
OtherIdle ==
    /\ connectedUsers = EmptyMap
    /\ notifSockets = [s \in Conns |-> "new"]
    /\ input = <<>>
    /\ output = Undefined

Init ==
    /\ conn = [c \in Conns |-> "new"]
    /\ isLaravelClient = [c \in Conns |-> FALSE]
    /\ dataBuffer = [c \in Conns |-> <<>>]
    /\ sioRooms = [c \in Conns |-> {}]
    /\ users = EmptyMap
    /\ rooms = EmptyMap
    /\ messageHistory = EmptyMap
    /\ laravelSockets = {}
    /\ timers = {}
    /\ now = 0
    /\ appended = EmptyMap
    /\ last = [op |-> "init", conn |-> 0, room |-> <<>>, result |-> "init"]
    /\ emitted = <<>>
    /\ budget = MaxSteps
    /\ OtherIdle

Budget == budget > 0 /\ budget' = budget - 1

\* io.on('connection'); the sockets are numbered in the order they connect
Connect(c) ==
    /\ Budget
    /\ conn[c] = "new"
    /\ \A d \in Conns : d < c => conn[d] # "new"
    /\ conn' = [conn EXCEPT ![c] = "open"]
    /\ sioRooms' = [sioRooms EXCEPT ![c] = {SocketId(c)}]
    /\ last' = [op |-> "connection", conn |-> c, room |-> <<>>, result |-> "open"]
    /\ emitted' = <<>>
    /\ UNCHANGED <<isLaravelClient, dataBuffer, users, rooms, messageHistory,
                   laravelSockets, timers, now, appended>>
    /\ UNCHANGED otherVars

\* the username check of join without toLowerCase
UsernameTakenCaseSensitive(us, username) ==
    \E id \in DOMAIN us : us[id].username = username

UsernameTaken(us, username) ==
    \E id \in DOMAIN us : toLowerCase(us[id].username) = toLowerCase(username)

\* the events of join with the replay taken after the join notice was stored
joinEventsReplayLast(c, room, joinMessage, hist, rs, us, sio) ==
    << socketEmit(c, "joined", [room |-> room, userCount |-> Cardinality(rs[room])]),
       socketToEmit(sio, c, room, "user_joined", joinMessage),
       socketEmit(c, "message_history",
                  getMessageHistory(addToMessageHistory(hist, room, joinMessage), room)),
       ioToEmit(sio, room, "users_update", roomUsers(rs, us, room)) >>

\* the events a successful join emits; hist is messageHistory when the handler starts,
\* rs, us and sio are rooms, users and the subscriptions after its updates
joinEvents(c, room, joinMessage, hist, rs, us, sio) ==
    << socketEmit(c, "message_history", getMessageHistory(hist, room)),
       socketEmit(c, "joined", [room |-> room, userCount |-> Cardinality(rs[room])]),
       socketToEmit(sio, c, room, "user_joined", joinMessage),
       ioToEmit(sio, room, "users_update", roomUsers(rs, us, room)) >>

\* socket.on('join'); room = Undefined stands for a userData without room
Join(c, username, roomArg) ==
    LET room == IF roomArg = Undefined THEN General ELSE roomArg
        joinMessage == SystemMessage(username, "joined the room", room)
    IN
    /\ conn[c] = "open"
    /\ ~isLaravelClient[c]
    /\ IF ~isValidUsername(username) \/ ~isValidRoomName(room)
          \/ UsernameTaken(users, username)
       THEN /\ last' = [op |-> "join", conn |-> c, room |-> <<>>,
                        result |-> IF ~isValidUsername(username) THEN "invalid username"
                                   ELSE IF ~isValidRoomName(room) THEN "invalid room"
                                   ELSE "taken"]
            /\ emitted' = <<socketEmit(c, "error",
                                       IF ~isValidUsername(username) THEN "Invalid username"
                                       ELSE IF ~isValidRoomName(room) THEN "Invalid room name"
                                       ELSE "Username already taken")>>
            /\ UNCHANGED <<sioRooms, users, rooms, messageHistory, appended, budget>>
       ELSE /\ Budget
            /\ users' = MapSet(users, c,
                               [username |-> username, room |-> room, socketId |-> c])
            /\ sioRooms' = [sioRooms EXCEPT ![c] = @ \cup {room}]
            /\ rooms' = MapSet(rooms, room,
                               (IF room \in DOMAIN rooms THEN rooms[room] ELSE {}) \cup {c})
            /\ messageHistory' = addToMessageHistory(messageHistory, room, joinMessage)
            /\ appended' = LogAppend(appended, room, joinMessage)
            /\ last' = [op |-> "join", conn |-> c, room |-> room, result |-> "joined"]
            /\ emitted' = joinEvents(c, room, joinMessage, messageHistory, rooms', users',
                                     sioRooms')
    /\ UNCHANGED <<conn, isLaravelClient, dataBuffer, laravelSockets, timers, now>>
    /\ UNCHANGED otherVars

\* ------------------------------------------------- leaving a room, timers
\* that block without the delete of the socket id
RoomsAfterLeaveKeep(rs, room, c) == rs

\* that block deleting the entry although members remain
RoomsAfterLeaveDropEntry(rs, room, c) ==
    IF room \notin DOMAIN rs THEN rs ELSE MapDelete(rs, room)

\* the block "rooms.get(room).delete(id); if (size === 0) rooms.delete(room)"
RoomsAfterLeave(rs, room, c) ==
    IF room \notin DOMAIN rs THEN rs
    ELSE IF rs[room] \ {c} = {} THEN MapDelete(rs, room)
    ELSE [rs EXCEPT ![room] = @ \ {c}]

\* that block without the setTimeout
TimersAfterLeaveNone(ts, rs, room, c) == ts

\* the setTimeout of that block: scheduled when the room entry was deleted
TimersAfterLeave(ts, rs, room, c) ==
    IF room \in DOMAIN rs /\ rs[room] \ {c} = {}
    THEN ts \cup {[room |-> room, due |-> now + PURGE_DELAY]}
    ELSE ts

\* socket.on('send_message')
SendMessage(c, rawContent) ==
    LET content == sanitizeInput(rawContent)
        user == users[c]
        message == [type |-> "message", username |-> user.username,
                    content |-> content, room |-> user.room, socketId |-> c]
    IN
    /\ conn[c] = "open"
    /\ ~isLaravelClient[c]
    /\ IF c \notin DOMAIN users
       THEN /\ last' = [op |-> "send_message", conn |-> c, room |-> <<>>,
                        result |-> "not authenticated"]
            /\ emitted' = <<socketEmit(c, "error", "User not authenticated")>>
            /\ UNCHANGED <<messageHistory, appended, budget>>
       ELSE IF content = <<>>
       THEN /\ last' = [op |-> "send_message", conn |-> c, room |-> <<>>,
                        result |-> "empty"]
            /\ emitted' = <<socketEmit(c, "error", "Message cannot be empty")>>
            /\ UNCHANGED <<messageHistory, appended, budget>>
       ELSE /\ Budget
            /\ messageHistory' = addToMessageHistory(messageHistory, user.room, message)
            /\ appended' = LogAppend(appended, user.room, message)
            /\ last' = [op |-> "send_message", conn |-> c, room |-> user.room,
                        result |-> "sent"]
            /\ emitted' = <<ioToEmit(sioRooms, user.room, "receive_message", message)>>
    /\ UNCHANGED <<conn, isLaravelClient, dataBuffer, sioRooms, users, rooms,
                   laravelSockets, timers, now>>
    /\ UNCHANGED otherVars

\* send_private_message that stores a delivered message in the sender's room
SendPrivateMessageStored(c, targetUsername, content) ==
    LET sender == users[c]
        sanitizedContent == sanitizeInput(content)
        targets == {id \in DOMAIN users :
                       toLowerCase(users[id].username) = toLowerCase(targetUsername)}
        privateMessage == [type |-> "private", from |-> sender.username,
                           to |-> targetUsername, content |-> sanitizedContent]
        delivered == /\ c \in DOMAIN users
                     /\ sanitizedContent # <<>>
                     /\ targetUsername # Undefined
                     /\ targets # {}
    IN
    /\ conn[c] = "open"
    /\ ~isLaravelClient[c]
    /\ last' = [op |-> "send_private_message", conn |-> c, room |-> <<>>,
                result |-> IF delivered THEN "delivered" ELSE "not found"]
    /\ emitted' = <<socketEmit(c, IF delivered THEN "private_message_sent" ELSE "error",
                               "stored")>>
    /\ messageHistory' = IF delivered
                         THEN addToMessageHistory(messageHistory, sender.room, privateMessage)
                         ELSE messageHistory
    /\ UNCHANGED <<conn, isLaravelClient, dataBuffer, sioRooms, users, rooms,
                   laravelSockets, timers, now, appended, budget>>
    /\ UNCHANGED otherVars

\* socket.on('send_private_message'); targetUsername = Undefined stands for a data
\* without targetUsername, whose toLowerCase() throws into the catch block
SendPrivateMessage(c, targetUsername, content) ==
    LET sender == users[c]
        sanitizedContent == sanitizeInput(content)
        targets == {id \in DOMAIN users :
                       toLowerCase(users[id].username) = toLowerCase(targetUsername)}
        targetUser == users[CHOOSE id \in targets : TRUE]
        privateMessage == [type |-> "private", from |-> sender.username,
                           to |-> targetUsername, content |-> sanitizedContent]
        result == IF c \notin DOMAIN users THEN "not authenticated"
                  ELSE IF sanitizedContent = <<>> THEN "empty"
                  ELSE IF targetUsername = Undefined THEN "failed"
                  ELSE IF targets = {} THEN "not found"
                  ELSE "delivered"
    IN
    /\ conn[c] = "open"
    /\ ~isLaravelClient[c]
    /\ last' = [op |-> "send_private_message", conn |-> c, room |-> <<>>,
                result |-> result]
    /\ emitted' =
           CASE result = "not authenticated" ->
                    <<socketEmit(c, "error", "User not authenticated")>>
             [] result = "empty" ->
                    <<socketEmit(c, "error", "Private message cannot be empty")>>
             [] result = "failed" ->
                    <<socketEmit(c, "error", "Failed to send private message")>>
             [] result = "not found" ->
                    <<socketEmit(c, "error", "User not found or offline")>>
             [] OTHER ->
                    << ioToEmit(sioRooms, SocketId(targetUser.socketId),
                                "receive_private_message", privateMessage),
                       socketEmit(c, "private_message_sent", privateMessage) >>
    /\ UNCHANGED <<conn, isLaravelClient, dataBuffer, sioRooms, users, rooms,
                   messageHistory, laravelSockets, timers, now, appended, budget>>
    /\ UNCHANGED otherVars

\* socket.on('typing') with isTyping = TRUE, socket.on('stop_typing') with FALSE
Typing(c, isTyping) ==
    LET user == users[c]
    IN
    /\ conn[c] = "open"
    /\ ~isLaravelClient[c]
    /\ last' = [op |-> IF isTyping THEN "typing" ELSE "stop_typing", conn |-> c,
                room |-> IF c \in DOMAIN users THEN user.room ELSE <<>>,
                result |-> IF c \in DOMAIN users THEN "notified" ELSE "no user"]
    /\ emitted' = IF c \in DOMAIN users
                  THEN <<socketToEmit(sioRooms, c, user.room, "user_typing",
                                      [username |-> user.username, isTyping |-> isTyping])>>
                  ELSE <<>>
    /\ UNCHANGED <<conn, isLaravelClient, dataBuffer, sioRooms, users, rooms,
                   messageHistory, laravelSockets, timers, now, appended, budget>>
    /\ UNCHANGED otherVars

\* a room list that leaves out the entries without member
roomListOfOccupied(rs) ==
    {[name |-> room, userCount |-> Cardinality(rs[room])] :
        room \in {r \in DOMAIN rs : rs[r] # {}}}

\* Array.from(rooms.keys()).map(room => ({name, userCount})), as a set
roomList(rs) == {[name |-> room, userCount |-> Cardinality(rs[room])] : room \in DOMAIN rs}

\* socket.on('get_rooms')
GetRooms(c) ==
    /\ conn[c] = "open"
    /\ ~isLaravelClient[c]
    /\ last' = [op |-> "get_rooms", conn |-> c, room |-> <<>>, result |-> "rooms_list"]
    /\ emitted' = <<socketEmit(c, "rooms_list", roomList(rooms))>>
    /\ UNCHANGED <<conn, isLaravelClient, dataBuffer, sioRooms, users, rooms,
                   messageHistory, laravelSockets, timers, now, appended, budget>>
    /\ UNCHANGED otherVars

\* socket.on('get_room_users')
GetRoomUsers(c, room) ==
    /\ conn[c] = "open"
    /\ ~isLaravelClient[c]
    /\ last' = [op |-> "get_room_users", conn |-> c, room |-> room,
                result |-> "room_users"]
    /\ emitted' = <<socketEmit(c, "room_users",
                               [room |-> room, users |-> roomUsers(rooms, users, room)])>>
    /\ UNCHANGED <<conn, isLaravelClient, dataBuffer, sioRooms, users, rooms,
                   messageHistory, laravelSockets, timers, now, appended, budget>>
    /\ UNCHANGED otherVars

\* the events a successful change_room emits; hist is messageHistory when the handler
\* starts, rs, us and sio are rooms, users and the subscriptions after its updates
changeRoomEvents(c, oldRoom, newRoom, leftMessage, joinedMessage, hist, rs, us, sio) ==
    << socketEmit(c, "message_history", getMessageHistory(hist, newRoom)),
       socketToEmit(sio, c, oldRoom, "user_left", leftMessage),
       ioToEmit(sio, oldRoom, "users_update", roomUsers(rs, us, oldRoom)),
       socketToEmit(sio, c, newRoom, "user_joined", joinedMessage),
       ioToEmit(sio, newRoom, "users_update", roomUsers(rs, us, newRoom)),
       socketEmit(c, "room_changed",
                  [room |-> newRoom, userCount |-> Cardinality(rs[newRoom])]) >>

\* socket.on('change_room')
ChangeRoom(c, newRoom) ==
    LET user == users[c]
        oldRoom == user.room
        left == RoomsAfterLeave(rooms, oldRoom, c)
        leftMessage == SystemMessage(user.username, "left the room", oldRoom)
        joinedMessage == SystemMessage(user.username, "joined the room", newRoom)
        hist1 == addToMessageHistory(messageHistory, oldRoom, leftMessage)
    IN
    /\ conn[c] = "open"
    /\ ~isLaravelClient[c]
    /\ IF c \notin DOMAIN users
       THEN /\ last' = [op |-> "change_room", conn |-> c, room |-> <<>>,
                        result |-> "not authenticated"]
            /\ emitted' = <<socketEmit(c, "error", "User not authenticated")>>
            /\ UNCHANGED <<sioRooms, users, rooms, messageHistory, timers, appended, budget>>
       ELSE IF ~isValidRoomName(newRoom)
       THEN /\ last' = [op |-> "change_room", conn |-> c, room |-> <<>>,
                        result |-> "invalid room"]
            /\ emitted' = <<socketEmit(c, "error", "Invalid room name")>>
            /\ UNCHANGED <<sioRooms, users, rooms, messageHistory, timers, appended, budget>>
       ELSE /\ Budget
            /\ sioRooms' = [sioRooms EXCEPT ![c] = (@ \ {oldRoom}) \cup {newRoom}]
            /\ timers' = TimersAfterLeave(timers, rooms, oldRoom, c)
            /\ users' = [users EXCEPT ![c].room = newRoom]
            /\ rooms' = MapSet(left, newRoom,
                               (IF newRoom \in DOMAIN left THEN left[newRoom] ELSE {})
                                   \cup {c})
            /\ messageHistory' = addToMessageHistory(hist1, newRoom, joinedMessage)
            /\ appended' = LogAppend(LogAppend(appended, oldRoom, leftMessage),
                                     newRoom, joinedMessage)
            /\ last' = [op |-> "change_room", conn |-> c, room |-> newRoom,
                        result |-> "changed", oldRoom |-> oldRoom]
            /\ emitted' = changeRoomEvents(c, oldRoom, newRoom, leftMessage, joinedMessage,
                                           messageHistory, rooms', users', sioRooms')
    /\ UNCHANGED <<conn, isLaravelClient, dataBuffer, laravelSockets, now>>
    /\ UNCHANGED otherVars

\* a disconnect that leaves a bridge socket in laravelSockets
DisconnectKeepsBridge(c) ==
    LET user == users[c]
        leftMessage == SystemMessage(user.username, "left the room", user.room)
    IN
    /\ Budget
    /\ conn[c] = "open"
    /\ conn' = [conn EXCEPT ![c] = "closed"]
    /\ sioRooms' = [sioRooms EXCEPT ![c] = {}]
    /\ IF isLaravelClient[c]
       THEN /\ laravelSockets' = laravelSockets
            /\ last' = [op |-> "disconnect", conn |-> c, room |-> <<>>,
                        result |-> "laravel"]
            /\ emitted' = <<>>
            /\ UNCHANGED <<users, rooms, messageHistory, timers, appended>>
       ELSE IF c \in DOMAIN users
       THEN /\ rooms' = RoomsAfterLeave(rooms, user.room, c)
            /\ timers' = TimersAfterLeave(timers, rooms, user.room, c)
            /\ users' = MapDelete(users, c)
            /\ messageHistory' = addToMessageHistory(messageHistory, user.room, leftMessage)
            /\ appended' = LogAppend(appended, user.room, leftMessage)
            /\ last' = [op |-> "disconnect", conn |-> c, room |-> user.room,
                        result |-> "user"]
            /\ emitted' = << socketToEmit(sioRooms', c, user.room, "user_left", leftMessage),
                             ioToEmit(sioRooms', user.room, "users_update",
                                      roomUsers(rooms', users', user.room)) >>
            /\ UNCHANGED laravelSockets
       ELSE /\ last' = [op |-> "disconnect", conn |-> c, room |-> <<>>,
                        result |-> "no user"]
            /\ emitted' = <<>>
            /\ UNCHANGED <<users, rooms, messageHistory, laravelSockets, timers, appended>>
    /\ UNCHANGED <<isLaravelClient, dataBuffer, now>>
    /\ UNCHANGED otherVars

\* socket.on('disconnect'); socket.io has dropped the socket's subscriptions
Disconnect(c) ==
    LET user == users[c]
        leftMessage == SystemMessage(user.username, "left the room", user.room)
    IN
    /\ Budget
    /\ conn[c] = "open"
    /\ conn' = [conn EXCEPT ![c] = "closed"]
    /\ sioRooms' = [sioRooms EXCEPT ![c] = {}]
    /\ IF isLaravelClient[c]
       THEN /\ laravelSockets' = laravelSockets \ {c}
            /\ last' = [op |-> "disconnect", conn |-> c, room |-> <<>>,
                        result |-> "laravel"]
            /\ emitted' = <<>>
            /\ UNCHANGED <<users, rooms, messageHistory, timers, appended>>
       ELSE IF c \in DOMAIN users
       THEN /\ rooms' = RoomsAfterLeave(rooms, user.room, c)
            /\ timers' = TimersAfterLeave(timers, rooms, user.room, c)
            /\ users' = MapDelete(users, c)
            /\ messageHistory' = addToMessageHistory(messageHistory, user.room, leftMessage)
            /\ appended' = LogAppend(appended, user.room, leftMessage)
            /\ last' = [op |-> "disconnect", conn |-> c, room |-> user.room,
                        result |-> "user"]
            /\ emitted' = << socketToEmit(sioRooms', c, user.room, "user_left", leftMessage),
                             ioToEmit(sioRooms', user.room, "users_update",
                                      roomUsers(rooms', users', user.room)) >>
            /\ UNCHANGED laravelSockets
       ELSE /\ last' = [op |-> "disconnect", conn |-> c, room |-> <<>>,
                        result |-> "no user"]
            /\ emitted' = <<>>
            /\ UNCHANGED <<users, rooms, messageHistory, laravelSockets, timers, appended>>
    /\ UNCHANGED <<isLaravelClient, dataBuffer, now>>
    /\ UNCHANGED otherVars

\* ----------------------------------------------------------------- bridge
\* the registries a control message can change, the events emitted and the lines
\* handed over so far
BridgeState(rs, hist, log) ==
    [rooms |-> rs, messageHistory |-> hist, appended |-> log, emitted |-> <<>>,
     lines |-> <<>>]

\* the bridge handlers without their room tracking step
EnsureRoomSkipped(rs, room) == rs

EnsureRoom(rs, room) == IF room \in DOMAIN rs THEN rs ELSE MapSet(rs, room, {})

\* the data field of an emit_to_room message: a chat message for receive_message, a
\* typing notice for user_typing
LaravelData(room, event) ==
    [type |-> IF event = "receive_message" THEN "message" ELSE "typing",
     source |-> "laravel", room |-> room]

handleLaravelEmit(st, message) ==
    [st EXCEPT !.emitted = Append(@, ioEmit(message.event, "data"))]

\* handleLaravelRoomEmit that stores every event it relays
handleLaravelRoomEmitStoreAll(st, message) ==
    [st EXCEPT !.rooms = EnsureRoom(@, message.room),
               !.emitted = Append(@, ioToEmit(sioRooms, message.room, message.event,
                                              LaravelData(message.room, message.event))),
               !.messageHistory =
                   addToMessageHistory(@, message.room, LaravelData(message.room, message.event)),
               !.appended = LogAppend(@, message.room, LaravelData(message.room, message.event))]

handleLaravelRoomEmit(st, message) ==
    LET sent == [st EXCEPT !.rooms = EnsureRoom(@, message.room),
                           !.emitted = Append(@, ioToEmit(sioRooms, message.room,
                                                          message.event,
                                                          LaravelData(message.room, message.event)))]
    IN IF message.event = "receive_message"
       THEN [sent EXCEPT !.messageHistory =
                             addToMessageHistory(@, message.room, LaravelData(message.room, message.event)),
                         !.appended = LogAppend(@, message.room, LaravelData(message.room, message.event))]
       ELSE sent

\* handleLaravelRoomCreation that announces the rooms of every type
handleLaravelRoomCreationAnnounceAll(st, message) ==
    IF message.room = Undefined THEN st
    ELSE [st EXCEPT !.rooms = EnsureRoom(@, message.room),
                    !.emitted = Append(@, ioEmit("collaboration_room_created", message.room))]

\* a message without room throws at room.name, before anything is written; a
\* collaboration message without new_user throws at new_user.id, after rooms.set and
\* before io.emit
handleLaravelRoomCreation(st, message) ==
    IF message.room = Undefined THEN st
    ELSE LET made == [st EXCEPT !.rooms = EnsureRoom(@, message.room)]
         IN IF message.roomType = "collaboration" /\ message.newUser # Undefined
            THEN [made EXCEPT !.emitted =
                      Append(@, ioEmit("collaboration_room_created", message.room))]
            ELSE made

\* handleLaravelPresenceUpdate that never scopes the event to a room
handleLaravelPresenceUpdateGlobal(st, message) ==
    [st EXCEPT !.emitted =
         Append(@, ioEmit("user_presence_changed", [source |-> "laravel"]))]

handleLaravelPresenceUpdate(st, message) ==
    IF message.room # Undefined
    THEN [st EXCEPT !.emitted =
              Append(@, ioToEmit(sioRooms, message.room, "user_presence_changed",
                                 [source |-> "laravel", room |-> message.room]))]
    ELSE [st EXCEPT !.emitted =
              Append(@, ioEmit("user_presence_changed", [source |-> "laravel"]))]

\* processLaravelMessage that answers a heartbeat like a ping
processLaravelMessagePongsHeartbeat(st, socket, messageStr) ==
    LET message == JSONparse(messageStr)
        seen == [st EXCEPT !.lines = Append(@, messageStr)]
    IN CASE message.type = "emit" -> handleLaravelEmit(seen, message)
         [] message.type = "emit_to_room" -> handleLaravelRoomEmit(seen, message)
         [] message.type = "room_created" -> handleLaravelRoomCreation(seen, message)
         [] message.type = "presence_update" -> handleLaravelPresenceUpdate(seen, message)
         [] message.type \in {"ping", "heartbeat"} ->
                [seen EXCEPT !.emitted = Append(@, socketEmit(socket, "pong", "pong"))]
         [] OTHER -> seen

processLaravelMessage(st, socket, messageStr) ==
    LET message == JSONparse(messageStr)
        seen == [st EXCEPT !.lines = Append(@, messageStr)]
    IN CASE message.type = "emit" -> handleLaravelEmit(seen, message)
         [] message.type = "emit_to_room" -> handleLaravelRoomEmit(seen, message)
         [] message.type = "room_created" -> handleLaravelRoomCreation(seen, message)
         [] message.type = "presence_update" -> handleLaravelPresenceUpdate(seen, message)
         [] message.type = "ping" ->
                [seen EXCEPT !.emitted = Append(@, socketEmit(socket, "pong", "pong"))]
         [] OTHER -> seen

\* the forEach below leaving the loop at the first line that is no JSON
RECURSIVE ProcessLinesStopAtError(_, _, _)
ProcessLinesStopAtError(st, socket, messages) ==
    IF messages = <<>> THEN st
    ELSE IF trim(Head(messages)) # <<>> /\ JSONparse(Head(messages)) = SyntaxError
    THEN [st EXCEPT !.lines = Append(@, Head(messages))]
    ELSE ProcessLinesStopAtError(IF trim(Head(messages)) # <<>>
                                 THEN processLaravelMessage(st, socket, Head(messages))
                                 ELSE st,
                                 socket, Tail(messages))

\* messages.forEach(msg => { if (msg.trim()) processLaravelMessage(socket, msg) })
RECURSIVE ProcessLines(_, _, _)
ProcessLines(st, socket, messages) ==
    IF messages = <<>> THEN st
    ELSE ProcessLines(IF trim(Head(messages)) # <<>>
                      THEN processLaravelMessage(st, socket, Head(messages)) ELSE st,
                      socket, Tail(messages))

IsIdentification(c, message) == message = LARAVEL_CLIENT

\* socket.conn.on('data')
RawData(c, data) ==
    LET message == trim(data)
        buffered == dataBuffer[c] \o message
        messages == split(buffered)
        st == ProcessLines(BridgeState(rooms, messageHistory, appended), c,
                           SubSeq(messages, 1, Len(messages) - 1))
    IN
    /\ conn[c] = "open"
    /\ IF IsIdentification(c, message)
       THEN /\ Budget
            /\ isLaravelClient' = [isLaravelClient EXCEPT ![c] = TRUE]
            /\ laravelSockets' = laravelSockets \cup {c}
            /\ last' = [op |-> "data", conn |-> c, room |-> <<>>, result |-> "identified",
                        frame |-> data, lines |-> <<>>]
            /\ emitted' = <<socketEmit(c, "laravel_connected", "connected")>>
            /\ UNCHANGED <<dataBuffer, rooms, messageHistory, appended>>
       ELSE IF isLaravelClient[c]
       THEN /\ Budget
            /\ dataBuffer' = [dataBuffer EXCEPT ![c] = messages[Len(messages)]]
            /\ rooms' = st.rooms
            /\ messageHistory' = st.messageHistory
            /\ appended' = st.appended
            /\ last' = [op |-> "data", conn |-> c, room |-> <<>>, result |-> "processed",
                        frame |-> data, lines |-> st.lines]
            /\ emitted' = st.emitted
            /\ UNCHANGED <<isLaravelClient, laravelSockets>>
       ELSE /\ last' = [op |-> "data", conn |-> c, room |-> <<>>, result |-> "ignored"]
            /\ emitted' = <<>>
            /\ UNCHANGED <<isLaravelClient, dataBuffer, rooms, messageHistory,
                           laravelSockets, appended, budget>>
    /\ UNCHANGED <<conn, sioRooms, users, timers, now>>
    /\ UNCHANGED otherVars

\* laravel_emit without the class check of its first line
LaravelEmitUnguarded(c, event) ==
    /\ conn[c] = "open"
    /\ last' = [op |-> "laravel_emit", conn |-> c, room |-> <<>>, result |-> event]
    /\ emitted' = <<ioEmit(event, "data")>>
    /\ UNCHANGED <<conn, isLaravelClient, dataBuffer, sioRooms, users, rooms,
                   messageHistory, laravelSockets, timers, now, appended, budget>>
    /\ UNCHANGED otherVars

\* socket.on('laravel_emit')
LaravelEmit(c, event) ==
    /\ conn[c] = "open"
    /\ isLaravelClient[c]
    /\ last' = [op |-> "laravel_emit", conn |-> c, room |-> <<>>, result |-> event]
    /\ emitted' = <<ioEmit(event, "data")>>
    /\ UNCHANGED <<conn, isLaravelClient, dataBuffer, sioRooms, users, rooms,
                   messageHistory, laravelSockets, timers, now, appended, budget>>
    /\ UNCHANGED otherVars

\* socket.on('laravel_emit_to_room')
LaravelEmitToRoom(c, room, event) ==
    LET st == handleLaravelRoomEmit(BridgeState(rooms, messageHistory, appended),
                                    [room |-> room, event |-> event])
    IN
    /\ Budget
    /\ conn[c] = "open"
    /\ isLaravelClient[c]
    /\ rooms' = st.rooms
    /\ messageHistory' = st.messageHistory
    /\ appended' = st.appended
    /\ last' = [op |-> "laravel_emit_to_room", conn |-> c, room |-> room, result |-> event]
    /\ emitted' = st.emitted
    /\ UNCHANGED <<conn, isLaravelClient, dataBuffer, sioRooms, users, laravelSockets,
                   timers, now>>
    /\ UNCHANGED otherVars

\* socket.on('laravel_room_created')
LaravelRoomCreated(c, room, roomType) ==
    LET st == handleLaravelRoomCreation(BridgeState(rooms, messageHistory, appended),
                                        [room |-> room, roomType |-> roomType,
                                         newUser |-> <<"u">>])
    IN
    /\ Budget
    /\ conn[c] = "open"
    /\ isLaravelClient[c]
    /\ rooms' = st.rooms
    /\ last' = [op |-> "laravel_room_created", conn |-> c, room |-> room,
                result |-> roomType]
    /\ emitted' = st.emitted
    /\ UNCHANGED <<conn, isLaravelClient, dataBuffer, sioRooms, users, messageHistory,
                   laravelSockets, timers, now, appended>>
    /\ UNCHANGED otherVars

\* socket.on('laravel_presence_update'); room = Undefined stands for a data without room
LaravelPresenceUpdate(c, room) ==
    LET st == handleLaravelPresenceUpdate(BridgeState(rooms, messageHistory, appended),
                                          [room |-> room])
    IN
    /\ conn[c] = "open"
    /\ isLaravelClient[c]
    /\ last' = [op |-> "laravel_presence_update", conn |-> c,
                room |-> IF room = Undefined THEN <<>> ELSE room, result |-> "broadcast"]
    /\ emitted' = st.emitted
    /\ UNCHANGED <<conn, isLaravelClient, dataBuffer, sioRooms, users, rooms,
                   messageHistory, laravelSockets, timers, now, appended, budget>>
    /\ UNCHANGED otherVars

\* the callback of the setTimeout calls, run at or after its due time; it reads
\* rooms as it is when it fires
PurgeDeletesUnchecked(t) == TRUE

PurgeDeletes(t) == t.room \notin DOMAIN rooms

PurgeFire(t) ==
    /\ t \in timers
    /\ t.due <= now
    /\ timers' = timers \ {t}
    /\ emitted' = <<>>
    /\ IF PurgeDeletes(t)
       THEN /\ messageHistory' = MapDelete(messageHistory, t.room)
            /\ appended' = MapDelete(appended, t.room)
            /\ last' = [op |-> "purge", conn |-> 0, room |-> t.room, result |-> "deleted"]
       ELSE /\ last' = [op |-> "purge", conn |-> 0, room |-> t.room, result |-> "kept"]
            /\ UNCHANGED <<messageHistory, appended>>
    /\ UNCHANGED <<conn, isLaravelClient, dataBuffer, sioRooms, users, rooms,
                   laravelSockets, now, budget>>
    /\ UNCHANGED otherVars

\* time passes; only the pending timers read the clock, so it is advanced only
\* while one of them is not yet due
Tick ==
    /\ now < MaxTicks * TickMs
    /\ \E t \in timers : now < t.due
    /\ now' = now + TickMs
    /\ UNCHANGED <<conn, isLaravelClient, dataBuffer, sioRooms, users, rooms,
                   messageHistory, laravelSockets, timers, appended, last, emitted,
                   budget>>
    /\ UNCHANGED otherVars

Next ==
    \/ \E c \in Conns : Connect(c)
    \/ \E c \in Conns, d \in JoinInputs : Join(c, d[1], d[2])
    \/ \E c \in Conns, m \in ContentInputs : SendMessage(c, m)
    \/ \E c \in Conns, d \in PrivateInputs : SendPrivateMessage(c, d[1], d[2])
    \/ \E c \in Conns, r \in RoomInputs : ChangeRoom(c, r)
    \/ \E c \in Conns : Disconnect(c)
    \/ \E c \in Conns, f \in FrameInputs : RawData(c, f)
    \/ \E c \in Conns, r \in ValidRooms, e \in {"receive_message", "user_typing"} :
           LaravelEmitToRoom(c, r, e)
    \/ \E c \in Conns, r \in ValidRooms, ty \in {"collaboration", "direct"} :
           LaravelRoomCreated(c, r, ty)
    \/ \E c \in Conns, r \in {R1, Undefined} : LaravelPresenceUpdate(c, r)
    \/ \E t \in timers : PurgeFire(t)
    \/ Tick

Spec == Init /\ [][Next]_vars

\* the same handlers, fed with well-formed inputs only
NextCore ==
    \/ \E c \in Conns : Connect(c)
    \/ \E c \in Conns, u \in {<<"A">>, <<"B">>} : Join(c, u, R1)
    \/ \E c \in Conns : SendMessage(c, <<"h","i">>)
    \/ \E c \in Conns : SendPrivateMessage(c, <<"A">>, <<"h","i">>)
    \/ \E c \in Conns, r \in ValidRooms : ChangeRoom(c, r)
    \/ \E c \in Conns : Disconnect(c)
    \/ \E c \in Conns, f \in {LARAVEL_CLIENT, <<"m", "\n", "t">>} : RawData(c, f)
    \/ \E c \in Conns, r \in ValidRooms, e \in {"receive_message", "user_typing"} :
           LaravelEmitToRoom(c, r, e)
    \/ \E c \in Conns : LaravelRoomCreated(c, R1, "collaboration")
    \/ \E c \in Conns : LaravelPresenceUpdate(c, R1)
    \/ \E t \in timers : PurgeFire(t)
    \/ Tick

\* connections, joins with every userData, messages and disconnections only
NextJoin ==
    \/ \E c \in Conns : Connect(c)
    \/ \E c \in Conns, d \in JoinInputs : Join(c, d[1], d[2])
    \/ \E c \in Conns : SendMessage(c, <<"h","i">>)
    \/ \E c \in Conns : Disconnect(c)

SpecJoin == Init /\ [][NextJoin]_vars

\* The state after socket 1 has connected, joined r1 as A and sent "hi"
\* MAX_MESSAGE_HISTORY - 1 times: the history of r1 is at its capacity.
HistInit ==
    LET joinMessage == [type |-> "system", content |-> <<(<<"A">>), "joined the room">>,
                        room |-> R1]
        message == [type |-> "message", username |-> <<"A">>, content |-> <<"h","i">>,
                    room |-> R1, socketId |-> 1]
        history == <<joinMessage>> \o [i \in 1..(MAX_MESSAGE_HISTORY - 1) |-> message]
    IN
    /\ conn = [c \in Conns |-> IF c = 1 THEN "open" ELSE "new"]
    /\ isLaravelClient = [c \in Conns |-> FALSE]
    /\ dataBuffer = [c \in Conns |-> <<>>]
    /\ sioRooms = [c \in Conns |-> IF c = 1 THEN {SocketId(1), R1} ELSE {}]
    /\ users = MapSet(EmptyMap, 1, [username |-> <<"A">>, room |-> R1, socketId |-> 1])
    /\ rooms = MapSet(EmptyMap, R1, {1})
    /\ messageHistory = MapSet(EmptyMap, R1, history)
    /\ laravelSockets = {}
    /\ timers = {}
    /\ now = 0
    /\ appended = MapSet(EmptyMap, R1, history)
    /\ last = [op |-> "send_message", conn |-> 1, room |-> R1, result |-> "sent"]
    /\ emitted = <<[to |-> {1}, event |-> "receive_message", room |-> R1,
                    payload |-> message]>>
    /\ budget = MaxSteps - 1
    /\ OtherIdle

SpecHist == HistInit /\ [][NextCore]_vars

\* The empty server, with one more event than in Init to come
LobbyInit ==
    /\ conn = [c \in Conns |-> "new"]
    /\ isLaravelClient = [c \in Conns |-> FALSE]
    /\ dataBuffer = [c \in Conns |-> <<>>]
    /\ sioRooms = [c \in Conns |-> {}]
    /\ users = EmptyMap
    /\ rooms = EmptyMap
    /\ messageHistory = EmptyMap
    /\ laravelSockets = {}
    /\ timers = {}
    /\ now = 0
    /\ appended = EmptyMap
    /\ last = [op |-> "init", conn |-> 0, room |-> <<>>, result |-> "init"]
    /\ emitted = <<>>
    /\ budget = MaxSteps + 1
    /\ OtherIdle

SpecLobby == LobbyInit /\ [][NextCore]_vars

\* ----------------------------------------------------------------- claims
Min(a, b) == IF a < b THEN a ELSE b
LastN(seq, n) == SubSeq(seq, Len(seq) - n + 1, Len(seq))

\* C1: the usernames of the user records are pairwise distinct when compared
\* case-insensitively, in every reachable state.
UniqueUsernames ==
    \A a \in DOMAIN users, b \in DOMAIN users :
        a # b => toLowerCase(users[a].username) # toLowerCase(users[b].username)

\* two users are connected and a join has just been refused because its username is taken
UniqueUsernamesWitness ==
    /\ Cardinality(DOMAIN users) >= 2
    /\ last.op = "join"
    /\ last.result = "taken"

\* C2: every member of every room entry has a user record whose room is that room.
MembersHaveUserInRoom ==
    \A r \in DOMAIN rooms : \A c \in rooms[r] : c \in DOMAIN users /\ users[c].room = r

\* C3: no room entry has an empty member set.
NoEmptyRoomEntry == \A r \in DOMAIN rooms : rooms[r] # {}

\* C4: every room's history holds at most MAX_MESSAGE_HISTORY (50) entries.
HistoryBounded ==
    \A r \in DOMAIN messageHistory : Len(messageHistory[r]) <= MAX_MESSAGE_HISTORY

\* a history is full after something was evicted from it
HistoryBoundedWitness ==
    \E r \in DOMAIN messageHistory :
        /\ Len(messageHistory[r]) = MAX_MESSAGE_HISTORY
        /\ Len(appended[r]) > MAX_MESSAGE_HISTORY

\* C5: a room's history is the last min(n, 50) of the n events appended to it since
\* its last purge, in the order they were appended.
HistoryIsFifo ==
    /\ DOMAIN messageHistory = DOMAIN appended
    /\ \A r \in DOMAIN messageHistory :
           messageHistory[r] =
               LastN(appended[r], Min(Len(appended[r]), MAX_MESSAGE_HISTORY))

\* 51 events were appended: the first is gone, the 51st is the last element
HistoryIsFifoWitness ==
    \E r \in DOMAIN messageHistory :
        /\ Len(appended[r]) = MAX_MESSAGE_HISTORY + 1
        /\ messageHistory[r] = Tail(appended[r])
        /\ messageHistory[r][MAX_MESSAGE_HISTORY] = appended[r][MAX_MESSAGE_HISTORY + 1]
        /\ appended[r][1] # messageHistory[r][1]

\* C6: while a room is absent and less than the purge delay has passed since it last
\* became empty (the timer scheduled then is not yet due), its history is still stored,
\* so that a user joining now finds it.
HistoryKeptDuringGrace ==
    \A t \in timers :
        (t.room \notin DOMAIN rooms /\ now < t.due) => t.room \in DOMAIN messageHistory

\* C7: a purge that fires while its room has an entry leaves messageHistory unchanged,
\* and a history is deleted only by a purge firing while its room has no entry.
PurgeRechecksRoom ==
    [][ /\ \A t \in timers \ timers' :
               t.room \in DOMAIN rooms => messageHistory' = messageHistory
        /\ \A r \in DOMAIN messageHistory \ DOMAIN messageHistory' :
               /\ r \notin DOMAIN rooms
               /\ \E t \in timers \ timers' : t.room = r /\ t.due <= now ]_vars

\* a purge has just fired for a room that was recreated, and the history is there
PurgeRechecksRoomWitness ==
    /\ last.op = "purge"
    /\ last.result = "kept"
    /\ last.room \in DOMAIN rooms
    /\ last.room \in DOMAIN messageHistory

\* C8: once a socket's disconnect has been processed it has no user record and is in
\* no room's member set.
DisconnectRemovesUser ==
    \A c \in Conns :
        conn[c] = "closed" =>
            /\ c \notin DOMAIN users
            /\ \A r \in DOMAIN rooms : c \notin rooms[r]

\* the lines of a split that the data handler passes on
RECURSIVE NonBlank(_)
NonBlank(lines) ==
    IF lines = <<>> THEN <<>>
    ELSE (IF trim(Head(lines)) # <<>> THEN <<Head(lines)>> ELSE <<>>) \o NonBlank(Tail(lines))

\* C9: a frame of a bridge connection (other than the identification token) hands
\* over exactly the complete non-blank lines of buffer + frame, in order, and the
\* buffer keeps the incomplete last line unchanged.
FramesSplitOnNewlines ==
    [][ ( /\ last'.op = "data"
          /\ budget' # budget
          /\ isLaravelClient[last'.conn]
          /\ trim(last'.frame) # LARAVEL_CLIENT )
        => LET c == last'.conn
               pieces == split(dataBuffer[c] \o last'.frame)
           IN /\ last'.lines = NonBlank(SubSeq(pieces, 1, Len(pieces) - 1))
              /\ dataBuffer'[c] = pieces[Len(pieces)] ]_vars

\* C10: a socket that holds a user record and is no bridge client is not made a
\* bridge client by any step.
RegularStaysRegular ==
    [][ \A c \in Conns :
            (c \in DOMAIN users /\ ~isLaravelClient[c]) => ~isLaravelClient'[c] ]_vars

\* C11: a send_message of a regular socket that has no user record emits one event,
\* an error, to that socket alone (so no receive_message to anyone), and leaves users,
\* rooms and messageHistory as they were.
SendWithoutUserOnlyErrors ==
    [][ ( /\ last'.op = "send_message"
          /\ ~isLaravelClient[last'.conn]
          /\ last'.conn \notin DOMAIN users )
        => /\ Len(emitted') = 1
           /\ emitted'[1].event = "error"
           /\ emitted'[1].to = {last'.conn}
           /\ UNCHANGED <<users, rooms, messageHistory>> ]_vars

\* a socket without user record was refused while another socket, holding one, was
\* connected
SendWithoutUserOnlyErrorsWitness ==
    /\ last.op = "send_message"
    /\ last.result = "not authenticated"
    /\ last.conn \notin DOMAIN users
    /\ \E d \in DOMAIN users : d # last.conn /\ conn[d] = "open"
    /\ emitted # <<>>
    /\ emitted[1].event = "error"

\* letters, digits, "_" and "-"
AllowedChars == Lowers \cup Uppers \cup Digits \cup {"_", "-"}

\* a name that is non-empty, at most max characters long and made of allowed characters
WithinLimits(name, max) ==
    /\ name # <<>>
    /\ Len(name) <= max
    /\ \A i \in 1..Len(name) : name[i] \in AllowedChars

\* C12: a join whose username or room name breaks the pattern or the length limit
\* (20 and 30), or whose username equals that of a user record when case is ignored,
\* emits one event, an error, to the caller alone, and leaves users, rooms and
\* messageHistory as they were.
FailedJoinOnlyErrors ==
    [][ \A c \in Conns, d \in JoinInputs :
            LET room == IF d[2] = Undefined THEN General ELSE d[2]
            IN ( /\ last'.op = "join"
                 /\ last'.conn = c
                 /\ \/ ~WithinLimits(d[1], 20)
                    \/ ~WithinLimits(room, 30)
                    \/ \E id \in DOMAIN users :
                           toLowerCase(users[id].username) = toLowerCase(d[1])
                 /\ Join(c, d[1], d[2]) )
               => /\ Len(emitted') = 1
                  /\ emitted'[1].event = "error"
                  /\ emitted'[1].to = {c}
                  /\ emitted'[1].room = <<>>
                  /\ UNCHANGED <<users, rooms, messageHistory>> ]_vars

\* a join with an invalid username was refused while a user was in a room
FailedJoinOnlyErrorsWitness ==
    /\ last.op = "join"
    /\ last.result = "invalid username"
    /\ \E d \in DOMAIN users : d # last.conn /\ conn[d] = "open"
    /\ emitted # <<>>
    /\ emitted[1].event = "error"

\* From the empty server exactly five events have been processed: two sockets
\* connected, one joined r1 as A and the other as B, and A's socket sent "hi" last.
LobbyDone ==
    /\ budget = MaxSteps - 4
    /\ Cardinality(DOMAIN users) = 2
    /\ \E a \in DOMAIN users, b \in DOMAIN users :
           /\ users[a] = [username |-> <<"A">>, room |-> R1, socketId |-> a]
           /\ users[b] = [username |-> <<"B">>, room |-> R1, socketId |-> b]
           /\ last = [op |-> "send_message", conn |-> a, room |-> R1, result |-> "sent"]

\* B's socket is among the receivers of a receive_message with username A, content
\* "hi" and the room
BReceivesHi ==
    \E b \in DOMAIN users, i \in 1..Len(emitted) :
        /\ users[b].username = <<"B">>
        /\ b \in emitted[i].to
        /\ emitted[i].event = "receive_message"
        /\ emitted[i].payload.username = <<"A">>
        /\ emitted[i].payload.content = <<"h","i">>
        /\ emitted[i].payload.room = R1

\* C13 as stated: after A and B joined the room and A sent "hi", B receives the
\* receive_message and the room's history has length 1.
LobbyHistoryHasOneEntry ==
    LobbyDone => (BReceivesHi /\ Len(messageHistory[R1]) = 1)

\* C13, amended: after A and B joined the room and A sent "hi", B receives the
\* receive_message and the room's history has length 3: the two join notices, then
\* the message as its newest entry.
LobbyHistoryHasThreeEntries ==
    LobbyDone =>
        /\ BReceivesHi
        /\ Len(messageHistory[R1]) = 3
        /\ {messageHistory[R1][1], messageHistory[R1][2]} =
               {SystemMessage(<<"A">>, "joined the room", R1),
                SystemMessage(<<"B">>, "joined the room", R1)}
        /\ messageHistory[R1][3].type = "message"
        /\ messageHistory[R1][3].content = <<"h","i">>

\* the scenario has been run, A joining first
LobbyWitness ==
    /\ LobbyDone
    /\ messageHistory[R1][1] = SystemMessage(<<"A">>, "joined the room", R1)
    /\ Len(emitted) = 1
    /\ Cardinality(emitted[1].to) = 2

\* C14: a send_private_message step, whatever its outcome (delivered, rejected as
\* empty, target not found, sender without user record), leaves messageHistory, users
\* and rooms as they were.
PrivateMessageKeepsRegistries ==
    [][ last'.op = "send_private_message"
        => UNCHANGED <<users, rooms, messageHistory>> ]_vars

\* a private message has just been delivered while a room had a history
PrivateMessageKeepsRegistriesWitness ==
    /\ last.op = "send_private_message"
    /\ last.result = "delivered"
    /\ \E i \in 1..Len(emitted) : emitted[i].event = "receive_private_message"
    /\ \E r \in DOMAIN messageHistory : messageHistory[r] # <<>>

\* what an emit_to_room of event to room must leave behind, given the data it carried
RoomEmitDone(room, event, data) ==
    LET old == IF room \in DOMAIN messageHistory THEN messageHistory[room] ELSE <<>>
    IN /\ Len(emitted') = 1
       /\ emitted'[1].event = event
       /\ emitted'[1].payload = data
       /\ emitted'[1].to = {d \in Conns : conn[d] = "open" /\ room \in sioRooms[d]}
       /\ room \in DOMAIN rooms'
       /\ IF event = "receive_message"
          THEN /\ Len(messageHistory'[room]) = Min(Len(old) + 1, MAX_MESSAGE_HISTORY)
               /\ messageHistory'[room] =
                      LastN(Append(old, data), Min(Len(old) + 1, MAX_MESSAGE_HISTORY))
               /\ \A r \in DOMAIN messageHistory \ {room} :
                      r \in DOMAIN messageHistory' /\ messageHistory'[r] = messageHistory[r]
          ELSE messageHistory' = messageHistory

\* C15: an emit_to_room of the bridge (the laravel_emit_to_room event, or a complete
\* raw line holding the message) sends the event to exactly the connected sockets subscribed
\* to the room, leaves the room with an entry in rooms, and, if the event is
\* receive_message, makes data the newest entry of the room's history, whose length
\* grows by one up to 50; for another event messageHistory is unchanged.
RoomEmitStoresMessages ==
    [][ /\ \A c \in Conns, r \in ValidRooms, e \in {"receive_message", "user_typing"} :
               (last'.op = "laravel_emit_to_room" /\ LaravelEmitToRoom(c, r, e))
               => RoomEmitDone(r, e, [type |-> IF e = "receive_message"
                                                THEN "message" ELSE "typing",
                                      source |-> "laravel", room |-> r])
        /\ \A c \in Conns :
               ( /\ last'.op = "data"
                 /\ isLaravelClient[c]
                 /\ dataBuffer[c] = <<>>
                 /\ RawData(c, <<"m", "\n", "t">>) )
               => RoomEmitDone(R1, "receive_message",
                               [type |-> "message", source |-> "laravel", room |-> R1])
      ]_vars

\* the bridge has just sent a receive_message to a subscribed socket of a room whose
\* history was full: the oldest entry is gone
RoomEmitStoresMessagesWitness ==
    /\ last.op = "laravel_emit_to_room"
    /\ last.result = "receive_message"
    /\ Len(emitted) = 1
    /\ emitted[1].to # {}
    /\ Len(messageHistory[last.room]) = MAX_MESSAGE_HISTORY
    /\ Len(appended[last.room]) > MAX_MESSAGE_HISTORY
    /\ messageHistory[last.room][MAX_MESSAGE_HISTORY] = emitted[1].payload

\* C16: every message, join or leave notice and presence event that the last step
\* broadcast to a room is an entry of that room's history, and no history holds a
\* private message or a typing notice.
RoomBroadcastsAreStored ==
    /\ \A i \in 1..Len(emitted) :
           ( /\ emitted[i].room # <<>>
             /\ emitted[i].event \in {"receive_message", "user_joined", "user_left",
                                      "user_presence_changed"} )
           => /\ emitted[i].room \in DOMAIN messageHistory
              /\ \E j \in 1..Len(messageHistory[emitted[i].room]) :
                     messageHistory[emitted[i].room][j] = emitted[i].payload
    /\ \A r \in DOMAIN messageHistory : \A j \in 1..Len(messageHistory[r]) :
           messageHistory[r][j].type \notin {"private", "typing"}

\* a line that JSON.parse rejects, or a room_created message without room
IsDiscarded(line) ==
    \/ JSONparse(line) = SyntaxError
    \/ (JSONparse(line).type = "room_created" /\ JSONparse(line).room = Undefined)

\* the lines among lines that are not discarded
RECURSIVE Handled(_)
Handled(lines) ==
    IF lines = <<>> THEN <<>>
    ELSE (IF IsDiscarded(Head(lines)) THEN <<>> ELSE <<Head(lines)>>) \o Handled(Tail(lines))

\* C17: a frame of a bridge socket has the effect of its complete lines with the
\* discarded ones (no JSON, or a handler that throws at once) left out: the later
\* lines still act, and users, laravelSockets and the socket's classification are
\* unchanged; a frame of discarded lines alone changes rooms and messageHistory
\* nowhere either.
BadLinesAreDiscarded ==
    [][ ( /\ last'.op = "data"
          /\ budget' # budget
          /\ isLaravelClient[last'.conn]
          /\ trim(last'.frame) # LARAVEL_CLIENT )
        => LET c == last'.conn
               pieces == split(dataBuffer[c] \o trim(last'.frame))
               st == ProcessLines(BridgeState(rooms, messageHistory, appended), c,
                                  Handled(SubSeq(pieces, 1, Len(pieces) - 1)))
           IN /\ rooms' = st.rooms
              /\ messageHistory' = st.messageHistory
              /\ emitted' = st.emitted
              /\ users' = users
              /\ laravelSockets' = laravelSockets
              /\ isLaravelClient'[c]
              /\ Handled(SubSeq(pieces, 1, Len(pieces) - 1)) = <<>>
                     => (rooms' = rooms /\ messageHistory' = messageHistory) ]_vars

\* a frame has just handed over a line that is no JSON and, after it, a room_created
\* line that made its room
BadLinesAreDiscardedWitness ==
    /\ last.op = "data"
    /\ last.result = "processed"
    /\ \E i \in 1..Len(last.lines), j \in 1..Len(last.lines) :
           /\ i < j
           /\ JSONparse(last.lines[i]) = SyntaxError
           /\ JSONparse(last.lines[j]).type = "room_created"
           /\ JSONparse(last.lines[j]).room \in DOMAIN rooms
           /\ JSONparse(last.lines[j]).room # R1
    /\ last.conn \in laravelSockets

\* the connected sockets in the member set of room
ConnectedMembers(rs, room) == {d \in rs[room] : conn[d] = "open"}

\* C18: a successful join emits four events in this order: message_history to the
\* caller alone, carrying the room's history as it was when the join arrived;
\* joined to the caller alone, carrying the member count; user_joined to the other
\* members and not to the caller, the notice being the newest history entry
\* afterwards; users_update to the members, the caller among them.
JoinEmitsInOrder ==
    [][ (last'.op = "join" /\ last'.result = "joined" /\ budget' # budget)
        => LET c == last'.conn
               room == last'.room
           IN /\ Len(emitted') = 4
              /\ [i \in 1..4 |-> emitted'[i].event] =
                     <<"message_history", "joined", "user_joined", "users_update">>
              /\ emitted'[1].to = {c}
              /\ emitted'[1].payload =
                     (IF room \in DOMAIN messageHistory THEN messageHistory[room] ELSE <<>>)
              /\ emitted'[2].to = {c}
              /\ emitted'[2].payload.userCount = Cardinality(rooms'[room])
              /\ c \notin emitted'[3].to
              /\ ConnectedMembers(rooms', room) \ {c} \subseteq emitted'[3].to
              /\ emitted'[3].payload.type = "system"
              /\ messageHistory'[room][Len(messageHistory'[room])] = emitted'[3].payload
              /\ c \in emitted'[4].to
              /\ ConnectedMembers(rooms', room) \subseteq emitted'[4].to ]_vars

\* a second user has just joined a room that had a member and a history
JoinEmitsInOrderWitness ==
    /\ last.op = "join"
    /\ last.result = "joined"
    /\ Len(emitted) = 4
    /\ emitted[1].payload # <<>>
    /\ emitted[2].payload.userCount = 2
    /\ emitted[3].to # {}
    /\ Cardinality(emitted[4].to) = 2

\* C19: after a successful change_room of socket c from its old room to a different
\* newRoom, c is not in the old room's member set and is in newRoom's, the room of
\* c's user record is newRoom, the newest entry of the old room's history is c's leave
\* notice and that of newRoom's history c's join notice, and the last event emitted is
\* room_changed, to c, with newRoom's member count.
ChangeRoomMoves ==
    (last.op = "change_room" /\ last.result = "changed" /\ last.oldRoom # last.room)
    => LET c == last.conn
           old == last.oldRoom
           new == last.room
       IN /\ old \in DOMAIN rooms => c \notin rooms[old]
          /\ new \in DOMAIN rooms
          /\ c \in rooms[new]
          /\ users[c].room = new
          /\ old \in DOMAIN messageHistory
          /\ messageHistory[old][Len(messageHistory[old])] =
                 [type |-> "system", content |-> <<users[c].username, "left the room">>,
                  room |-> old]
          /\ new \in DOMAIN messageHistory
          /\ messageHistory[new][Len(messageHistory[new])] =
                 [type |-> "system", content |-> <<users[c].username, "joined the room">>,
                  room |-> new]
          /\ emitted # <<>>
          /\ emitted[Len(emitted)].event = "room_changed"
          /\ emitted[Len(emitted)].to = {c}
          /\ emitted[Len(emitted)].payload =
                 [room |-> new, userCount |-> Cardinality(rooms[new])]

\* a user has just moved out of a room in which another user stays
ChangeRoomMovesWitness ==
    /\ last.op = "change_room"
    /\ last.result = "changed"
    /\ last.oldRoom # last.room
    /\ last.oldRoom \in DOMAIN rooms
    /\ rooms[last.oldRoom] # {}
    /\ last.conn \in rooms[last.room]
    /\ \E i \in 1..Len(emitted) : emitted[i].event = "user_left" /\ emitted[i].to # {}

\* the sockets that receive some event of the last step
Receivers == UNION {emitted[i].to : i \in 1..Len(emitted)}

\* C20: a delivered private message goes to exactly one socket, the one whose user
\* record's username equals targetUsername when case is ignored, and is confirmed to
\* the sender with private_message_sent; when no user record matches, the sender
\* gets an error and no other socket receives anything.
PrivateMessageReachesOnlyTarget ==
    /\ (last.op = "send_private_message" /\ last.result = "delivered")
       => /\ Len(emitted) = 2
          /\ emitted[1].event = "receive_private_message"
          /\ \E t \in DOMAIN users :
                 /\ toLowerCase(users[t].username) = toLowerCase(emitted[1].payload.to)
                 /\ emitted[1].to = {t}
          /\ emitted[2].event = "private_message_sent"
          /\ emitted[2].to = {last.conn}
    /\ (last.op = "send_private_message" /\ last.result \in {"not found", "failed"})
       => /\ Len(emitted) = 1
          /\ emitted[1].event = "error"
          /\ Receivers = {last.conn}

\* connections, joins, room changes, disconnections, the bridge creating rooms, and
\* the handlers that only read the registries
NextQuery ==
    \/ \E c \in Conns : Connect(c)
    \/ \E c \in Conns, u \in {<<"A">>, <<"B">>} : Join(c, u, R1)
    \/ \E c \in Conns, r \in ValidRooms : ChangeRoom(c, r)
    \/ \E c \in Conns : Disconnect(c)
    \/ \E c \in Conns : RawData(c, LARAVEL_CLIENT)
    \/ \E c \in Conns, r \in ValidRooms : LaravelRoomCreated(c, r, "direct")
    \/ \E c \in Conns, ty \in BOOLEAN : Typing(c, ty)
    \/ \E c \in Conns : GetRooms(c)
    \/ \E c \in Conns, r \in ValidRooms : GetRoomUsers(c, r)
    \/ \E c \in Conns : LaravelEmit(c, "notice")

SpecQuery == LobbyInit /\ [][NextQuery]_vars

\* the other connected sockets whose user record names the room
OthersInRoom(c, room) ==
    {d \in Conns \ {c} : conn[d] = "open" /\ d \in DOMAIN users /\ users[d].room = room}

\* C21: typing and stop_typing from a socket with a user record emit one
\* user_typing event, carrying the username and the flag, to the sockets subscribed
\* to the user's room other than the sender, among them every other connected user
\* of that room; from a socket without a user record they
\* emit nothing; in both cases users, rooms and messageHistory stay as they were
TypingNotifiesOthersOnly ==
    [][ last'.op \in {"typing", "stop_typing"}
        => /\ UNCHANGED <<users, rooms, messageHistory, laravelSockets>>
           /\ IF last'.conn \in DOMAIN users
              THEN /\ Len(emitted') = 1
                   /\ emitted'[1].event = "user_typing"
                   /\ emitted'[1].payload.username = users[last'.conn].username
                   /\ emitted'[1].payload.isTyping = (last'.op = "typing")
                   /\ last'.conn \notin emitted'[1].to
                   /\ emitted'[1].to =
                          Subscribers(sioRooms, users[last'.conn].room) \ {last'.conn}
                   /\ OthersInRoom(last'.conn, users[last'.conn].room)
                          \subseteq emitted'[1].to
              ELSE emitted' = <<>> ]_vars

TypingNotifiesOthersOnlyWitness ==
    /\ last.op = "stop_typing"
    /\ Len(emitted) = 1
    /\ emitted[1].event = "user_typing"
    /\ emitted[1].to # {}

\* the same handlers from the state before any connection, one event more
SpecJoinLobby == LobbyInit /\ [][NextJoin]_vars

\* the connected users whose record names the room
UsersInRoom(room) ==
    {d \in DOMAIN users : conn[d] = "open" /\ users[d].room = room}

\* C22: the userCount of the joined confirmation of a successful join is the number
\* of connected users whose current room is the joined room, the joiner included
JoinedCountsRoomUsers ==
    (last.op = "join" /\ last.result = "joined")
    => /\ emitted[2].event = "joined"
       /\ emitted[2].payload.userCount = Cardinality(UsersInRoom(last.room))

\* connections, joins, room changes, disconnections, the bridge creating a room,
\* and the purge timers
NextPurge ==
    \/ \E c \in Conns : Connect(c)
    \/ \E c \in Conns, u \in {<<"A">>, <<"B">>} : Join(c, u, R1)
    \/ \E c \in Conns, r \in ValidRooms : ChangeRoom(c, r)
    \/ \E c \in Conns : Disconnect(c)
    \/ \E c \in Conns : RawData(c, LARAVEL_CLIENT)
    \/ \E c \in Conns : LaravelRoomCreated(c, R1, "collaboration")
    \/ \E t \in timers : PurgeFire(t)
    \/ Tick

\* the span of the clock, and the timers that can be pending within it
Horizon == MaxTicks * TickMs
TimerValues ==
    {[room |-> r, due |-> k * TickMs + PURGE_DELAY] : r \in ValidRooms, k \in 0..MaxTicks}

\* time passes while a timer waits, and a timer that is due fires
SpecPurge ==
    /\ Init
    /\ [][NextPurge]_vars
    /\ WF_vars(Tick)
    /\ \A t \in TimerValues : WF_vars(PurgeFire(t))

\* C23: a disconnect or change_room after which a room has no member left deletes
\* the room entry and schedules the purge of that room in the same step; and once a
\* purge of a room without entry is scheduled (to fire within the span of the
\* clock), either the room gets an entry again or its history is eventually removed
EmptiedRoomIsPurged ==
    /\ [][ last'.op \in {"disconnect", "change_room"}
           => \A r \in DOMAIN rooms :
                 (rooms[r] # {} /\ (r \notin DOMAIN rooms' \/ rooms'[r] = {}))
                 => /\ r \notin DOMAIN rooms'
                    /\ [room |-> r, due |-> now + PURGE_DELAY] \in timers' ]_vars
    /\ \A r \in ValidRooms :
          (r \notin DOMAIN rooms /\ \E t \in timers : t.room = r /\ t.due <= Horizon)
          ~> (r \in DOMAIN rooms \/ r \notin DOMAIN messageHistory)

EmptiedRoomIsPurgedWitness ==
    /\ last.op = "purge"
    /\ last.result = "deleted"
    /\ last.room \notin DOMAIN rooms
    /\ last.room \notin DOMAIN messageHistory
    /\ \E c \in Conns : conn[c] = "closed"

\* contents that sanitizeInput empties
BlankContents == {<<>>, <<" ">>, <<"\n", " ">>}

\* connections, joins, disconnections, and messages and room changes with
\* well-formed and with rejected arguments
NextErr ==
    \/ \E c \in Conns : Connect(c)
    \/ \E c \in Conns, u \in {<<"A">>, <<"B">>} : Join(c, u, R1)
    \/ \E c \in Conns, m \in {<<"h","i">>} \cup BlankContents : SendMessage(c, m)
    \/ \E c \in Conns, d \in PrivateInputs \cup ({<<"A">>} \X BlankContents) :
           SendPrivateMessage(c, d[1], d[2])
    \/ \E c \in Conns, r \in RoomInputs : ChangeRoom(c, r)
    \/ \E c \in Conns : Disconnect(c)

SpecErr == Init /\ [][NextErr]_vars

\* C24: a change_room with an invalid room name, a send_message and a
\* send_private_message whose content is empty once sanitized each emit one error
\* event to the calling socket alone, and leave users, rooms, messageHistory and the
\* room subscriptions as they were
RejectedInputOnlyErrors ==
    [][ \A c \in Conns :
          ( \/ \E r \in InvalidRooms : ChangeRoom(c, r)
            \/ \E m \in BlankContents : SendMessage(c, m)
            \/ \E m \in BlankContents : SendPrivateMessage(c, <<"A">>, m) )
          => /\ Len(emitted') = 1
             /\ emitted'[1].event = "error"
             /\ emitted'[1].to = {c}
             /\ UNCHANGED <<users, rooms, messageHistory, sioRooms>> ]_vars

RejectedInputOnlyErrorsWitness ==
    /\ last.op = "change_room"
    /\ last.result = "invalid room"
    /\ OthersInRoom(last.conn, users[last.conn].room) # {}
    /\ emitted[1].to = {last.conn}

\* C25: get_rooms and get_room_users leave users, rooms, messageHistory,
\* laravelSockets, the subscriptions and the timers as they were and emit one event,
\* to the calling socket alone; the rooms_list of get_rooms has one element for each
\* entry of rooms and no other, with the size of the entry's member set
QueriesChangeNothing ==
    [][ last'.op \in {"get_rooms", "get_room_users"}
        => /\ UNCHANGED <<users, rooms, messageHistory, laravelSockets, sioRooms,
                          timers, dataBuffer, isLaravelClient>>
           /\ Len(emitted') = 1
           /\ emitted'[1].to = {last'.conn}
           /\ last'.op = "get_rooms"
              => /\ emitted'[1].event = "rooms_list"
                 /\ {e.name : e \in emitted'[1].payload} = DOMAIN rooms
                 /\ Cardinality(emitted'[1].payload) = Cardinality(DOMAIN rooms)
                 /\ \A e \in emitted'[1].payload :
                       e.userCount = Cardinality(rooms[e.name])
           /\ last'.op = "get_room_users"
              => /\ emitted'[1].event = "room_users"
                 /\ emitted'[1].payload.room = last'.room ]_vars

QueriesChangeNothingWitness ==
    /\ last.op = "get_rooms"
    /\ Cardinality(emitted[1].payload) = 2
    /\ \E e \in emitted[1].payload : e.userCount = 0
    /\ \E e \in emitted[1].payload : e.userCount = 1

\* the raw frames of a bridge socket, one kind of control message each and one with
\* lines that are no JSON or throw; the last line
\* of a frame stays in the buffer and is the start of the next frame's first line
BridgeFrames ==
    { LARAVEL_CLIENT,
      <<"c", "\n", "d", "\n", "h">>,
      <<"c", "\n", "x", "\n", "k", "\n", "d", "\n", "e">>,
      <<"n", "\n", "h">>,
      <<"p", "\n", "h">>,
      <<"o", "\n", "h">>,
      <<"g", "\n", "h">>,
      <<"h", "\n", "q", "\n", "u", "\n", "h">> }

\* connections, joins, disconnections, and the frames and events of the bridge
NextBridge ==
    \/ \E c \in Conns : Connect(c)
    \/ \E c \in Conns, u \in {<<"A">>, <<"B">>} : Join(c, u, R1)
    \/ \E c \in Conns : Disconnect(c)
    \/ \E c \in Conns, f \in BridgeFrames : RawData(c, f)
    \/ \E c \in Conns, r \in ValidRooms, ty \in {"collaboration", "direct"} :
           LaravelRoomCreated(c, r, ty)
    \/ \E c \in Conns, r \in {R1, Undefined} : LaravelPresenceUpdate(c, r)
    \/ \E c \in Conns : LaravelEmit(c, "notice")

SpecBridge == Init /\ [][NextBridge]_vars

\* the sockets that io.emit reaches
OpenSockets == {d \in Conns : conn[d] = "open"}

PresenceReachesRoomOrAll ==
    [][ /\ last'.op = "laravel_presence_update"
           => /\ UNCHANGED <<users, rooms, messageHistory>>
              /\ Len(emitted') = 1
              /\ emitted'[1].event = "user_presence_changed"
              /\ IF last'.room # <<>>
                 THEN /\ emitted'[1].to = Subscribers(sioRooms, last'.room)
                      /\ UsersInRoom(last'.room) \subseteq emitted'[1].to
                 ELSE emitted'[1].to = OpenSockets
        /\ (last'.op = "data" /\ last'.result = "processed" /\ last'.lines = << <<"p">> >>)
           => /\ UNCHANGED <<users, rooms, messageHistory>>
              /\ Len(emitted') = 1
              /\ emitted'[1].event = "user_presence_changed"
              /\ emitted'[1].to = Subscribers(sioRooms, R1)
              /\ UsersInRoom(R1) \subseteq emitted'[1].to
        /\ (last'.op = "data" /\ last'.result = "processed" /\ last'.lines = << <<"o">> >>)
           => /\ UNCHANGED <<users, rooms, messageHistory>>
              /\ Len(emitted') = 1
              /\ emitted'[1].event = "user_presence_changed"
              /\ emitted'[1].to = OpenSockets ]_vars

PresenceReachesRoomOrAllWitness ==
    /\ last.op = "laravel_presence_update"
    /\ last.room = R1
    /\ emitted[1].to # {}
    /\ emitted[1].to # OpenSockets

\* C28: a processed ping line emits one pong, to the socket that sent the frame
\* alone; processed heartbeat, disconnect and unknown lines emit nothing; in both
\* cases users, rooms, messageHistory and laravelSockets stay as they were, the
\* sender of a disconnect line staying in laravelSockets
PingIsAnsweredOnly ==
    [][ /\ (last'.op = "data" /\ last'.result = "processed" /\ last'.lines = << <<"g">> >>)
           => /\ Len(emitted') = 1
              /\ emitted'[1].event = "pong"
              /\ emitted'[1].to = {last'.conn}
              /\ UNCHANGED <<users, rooms, messageHistory, laravelSockets>>
        /\ ( /\ last'.op = "data"
             /\ last'.result = "processed"
             /\ last'.lines = << <<"h">>, <<"q">>, <<"u">> >> )
           => /\ emitted' = <<>>
              /\ UNCHANGED <<users, rooms, messageHistory, laravelSockets>>
              /\ last'.conn \in laravelSockets' ]_vars

PingIsAnsweredOnlyWitness ==
    /\ last.op = "data"
    /\ last.result = "processed"
    /\ last.lines = << <<"g">> >>
    /\ Cardinality(OpenSockets) = 2
    /\ emitted[1].to = {last.conn}

\* the open sockets flagged as bridge clients
BridgeSockets == {c \in Conns : conn[c] = "open" /\ isLaravelClient[c]}

\* C29: laravelSockets is always the set of the open sockets flagged as bridge
\* clients; an accepted identification frame adds its socket; the disconnect of a
\* bridge socket removes it and leaves users, rooms, messageHistory and the timers as
\* they were, emitting nothing
BridgeSetIsExact ==
    /\ [](laravelSockets = BridgeSockets)
    /\ [][ /\ (last'.op = "data" /\ last'.result = "identified" /\ budget' # budget)
              => /\ laravelSockets' = laravelSockets \cup {last'.conn}
                 /\ isLaravelClient'[last'.conn]
                 /\ UNCHANGED <<users, rooms, messageHistory, timers>>
           /\ (last'.op = "disconnect" /\ budget' # budget /\ isLaravelClient[last'.conn])
              => /\ laravelSockets' = laravelSockets \ {last'.conn}
                 /\ emitted' = <<>>
                 /\ UNCHANGED <<users, rooms, messageHistory, timers>> ]_vars

BridgeSetIsExactWitness ==
    /\ last.op = "disconnect"
    /\ last.result = "laravel"
    /\ isLaravelClient[last.conn]
    /\ last.conn \notin laravelSockets
    /\ last.conn \in DOMAIN users

\* contents of send_message around the limit: short, blank, of the limit's length,
\* and longer than the limit with blanks around
LongContents ==
    { <<"h", "i">>,
      <<" ">>,
      Rep("x", MAX_MESSAGE_LENGTH),
      <<" ", "\n", " ">>,
      <<" ">> \o Rep("x", MAX_MESSAGE_LENGTH - 1) \o <<"y", "z", " ">> }

\* connections, joins, disconnections, and messages with these contents
NextLong ==
    \/ \E c \in Conns : Connect(c)
    \/ \E c \in Conns, u \in {<<"A">>, <<"B">>} : Join(c, u, R1)
    \/ \E c \in Conns, m \in LongContents : SendMessage(c, m)
    \/ \E c \in Conns : Disconnect(c)

SpecLong == Init /\ [][NextLong]_vars

\* C30: the message that a send_message broadcasts as receive_message and appends
\* to the history of the sender's room has a content that is not empty and has at
\* most MAX_MESSAGE_LENGTH characters
SentContentWithinLimit ==
    [][ (last'.op = "send_message" /\ last'.result = "sent" /\ budget' # budget)
        => LET message == emitted'[1].payload
               history == messageHistory'[last'.room]
           IN /\ emitted'[1].event = "receive_message"
              /\ message.content # <<>>
              /\ Len(message.content) <= MAX_MESSAGE_LENGTH
              /\ history[Len(history)] = message ]_vars

SentContentWithinLimitWitness ==
    /\ last.op = "send_message"
    /\ last.result = "sent"
    /\ Len(emitted[1].payload.content) = MAX_MESSAGE_LENGTH
    /\ emitted[1].payload.content[MAX_MESSAGE_LENGTH] = "y"
    /\ messageHistory[last.room][Len(messageHistory[last.room])] = emitted[1].payload

\* every handler that writes users, rooms, messageHistory or the timers: joins into
\* two rooms (also repeated on one socket), room changes, messages, disconnections,
\* the identification frame, the bridge relaying into a room and creating one, and
\* the purge timers
NextRooms ==
    \/ \E c \in Conns : Connect(c)
    \/ \E c \in Conns, u \in {<<"A">>, <<"B">>}, r \in {R1, Undefined} : Join(c, u, r)
    \/ \E c \in Conns : SendMessage(c, <<"h","i">>)
    \/ \E c \in Conns, r \in ValidRooms : ChangeRoom(c, r)
    \/ \E c \in Conns : Disconnect(c)
    \/ \E c \in Conns : RawData(c, LARAVEL_CLIENT)
    \/ \E c \in Conns : LaravelEmitToRoom(c, R1, "receive_message")
    \/ \E c \in Conns : LaravelRoomCreated(c, R1, "direct")
    \/ \E t \in timers : PurgeFire(t)
    \/ Tick

SpecRooms == LobbyInit /\ [][NextRooms]_vars

\* C31: for every user record, rooms has an entry for the record's room and the
\* member set of that entry holds the record's socket id
UsersAreMembers ==
    \A c \in DOMAIN users :
        /\ users[c].room \in DOMAIN rooms
        /\ c \in rooms[users[c].room]

\* a socket that joined twice, still in the member set of its former room, and another
\* user in the room of its record
UsersAreMembersWitness ==
    \E c \in DOMAIN users :
        /\ \E r \in DOMAIN rooms : r # users[c].room /\ c \in rooms[r]
        /\ Cardinality(rooms[users[c].room]) = 2

\* C32: a socket id is in the member set of at most one room
MemberOfOneRoom ==
    \A c \in Conns : Cardinality({r \in DOMAIN rooms : c \in rooms[r]}) <= 1

\* C33: no socket is both in laravelSockets and the owner of a user record
BridgeOwnsNoUser ==
    \A c \in laravelSockets : c \notin DOMAIN users

\* the events that the handlers address to a room
RoomScoped == {"receive_message", "user_joined", "user_left", "users_update", "user_typing"}

\* C34: every room-addressed event of the last step is delivered only to sockets that
\* own a user record naming that room
RoomEventsReachRoomUsersOnly ==
    \A i \in 1..Len(emitted) :
        (emitted[i].event \in RoomScoped /\ emitted[i].room # <<>>)
        => \A d \in emitted[i].to :
               /\ d \in DOMAIN users
               /\ users[d].room = emitted[i].room

\* ---------------------------------------------------------------------------
\* The class check at the first line of every handler.

\* the events whose handlers begin with  if (socket.isLaravelClient) return;
RegularEvents ==
    {"join", "send_message", "send_private_message", "typing", "stop_typing",
     "change_room", "get_rooms", "get_room_users"}

\* the events whose handlers begin with  if (!socket.isLaravelClient) return;
BridgeEvents ==
    {"laravel_emit", "laravel_emit_to_room", "laravel_room_created",
     "laravel_presence_update"}

\* an event of the wrong class for the socket: the handler returns at its first line
Ignored(c, event) ==
    /\ conn[c] = "open"
    /\ \/ event \in RegularEvents /\ isLaravelClient[c]
       \/ event \in BridgeEvents /\ ~isLaravelClient[c]
    /\ last' = [op |-> event, conn |-> c, room |-> <<>>, result |-> "ignored"]
    /\ emitted' = <<>>
    /\ UNCHANGED <<conn, isLaravelClient, dataBuffer, sioRooms, users, rooms,
                   messageHistory, laravelSockets, timers, now, appended, budget>>
    /\ UNCHANGED otherVars

\* all twelve class-checked handlers, each event also sent by the wrong class
NextGuard ==
    \/ \E c \in Conns : Connect(c)
    \/ \E c \in Conns : Join(c, <<"A">>, R1)
    \/ \E c \in Conns : SendMessage(c, <<"h","i">>)
    \/ \E c \in Conns : SendPrivateMessage(c, <<"A">>, <<"h","i">>)
    \/ \E c \in Conns, ty \in BOOLEAN : Typing(c, ty)
    \/ \E c \in Conns : ChangeRoom(c, General)
    \/ \E c \in Conns : GetRooms(c)
    \/ \E c \in Conns : GetRoomUsers(c, R1)
    \/ \E c \in Conns : Disconnect(c)
    \/ \E c \in Conns : RawData(c, LARAVEL_CLIENT)
    \/ \E c \in Conns : LaravelEmit(c, "notice")
    \/ \E c \in Conns : LaravelEmitToRoom(c, R1, "receive_message")
    \/ \E c \in Conns : LaravelRoomCreated(c, R1, "collaboration")
    \/ \E c \in Conns : LaravelPresenceUpdate(c, R1)
    \/ \E c \in Conns, e \in RegularEvents \cup BridgeEvents : Ignored(c, e)

SpecGuard == Init /\ [][NextGuard]_vars

\* C35: a laravel_emit, laravel_emit_to_room, laravel_room_created or
\* laravel_presence_update event sent by a socket that is not flagged as bridge, and a
\* join, send_message, send_private_message, typing, stop_typing, change_room,
\* get_rooms or get_room_users event sent by a flagged socket, emits nothing and
\* leaves every registry, the history, the timers and the socket state as they were.
WrongClassEventsDoNothing ==
    [][ ( \/ last'.op \in RegularEvents /\ isLaravelClient[last'.conn]
          \/ last'.op \in BridgeEvents /\ ~isLaravelClient[last'.conn] )
        => /\ emitted' = <<>>
           /\ UNCHANGED <<conn, isLaravelClient, dataBuffer, sioRooms, users, rooms,
                          messageHistory, laravelSockets, timers, now, appended>>
      ]_vars

\* a socket that joined and was then flagged as bridge has sent send_message while
\* its user record is still in the registry
WrongClassEventsDoNothingWitness ==
    /\ last.op = "send_message"
    /\ last.result = "ignored"
    /\ last.conn \in DOMAIN users
    /\ isLaravelClient[last.conn]
    /\ users[last.conn].room \in DOMAIN messageHistory

\* C36: in every reachable state, every room that has a history buffer and no entry in
\* the room registry has at least one pending purge timer.
OrphanHistoryHasTimer ==
    \A r \in DOMAIN messageHistory :
        r \notin DOMAIN rooms => \E t \in timers : t.room = r

\* a room was emptied twice at different times: its entry is gone, its history is kept
\* and two purge timers are pending for it, the first of them due
OrphanHistoryHasTimerWitness ==
    \E r \in DOMAIN messageHistory :
        /\ r \notin DOMAIN rooms
        /\ Cardinality({t \in timers : t.room = r}) = 2
        /\ \E t \in timers : t.room = r /\ t.due <= now

\* ---------------------------------------------------------------------------
\* The notification server: connectedUsers and the handlers that write it.

NumUsers == 4
\* the userId of a register event, a database key
UserIds == 1..NumUsers

chatVars == <<conn, isLaravelClient, dataBuffer, sioRooms, users, rooms, messageHistory,
              laravelSockets, timers, now, appended, last, emitted, budget>>

\* io.on("connection")
NotifConnection(s) ==
    /\ notifSockets[s] = "new"
    /\ notifSockets' = [notifSockets EXCEPT ![s] = "open"]
    /\ UNCHANGED <<connectedUsers, input, output>>
    /\ UNCHANGED chatVars

\* socket.on("register"): the assignment is made before the database is awaited, and
\* nothing after the await touches connectedUsers
Register(s, userId) ==
    /\ notifSockets[s] = "open"
    /\ connectedUsers' = MapSet(connectedUsers, userId, s)
    /\ UNCHANGED <<notifSockets, input, output>>
    /\ UNCHANGED chatVars

\* the keys whose value is the socket id
EntriesOf(obj, id) == {userId \in DOMAIN obj : obj[userId] = id}

\* the first such key in the order of Object.entries; integer keys come in
\* ascending order
FirstEntryOf(obj, id) ==
    CHOOSE userId \in EntriesOf(obj, id) : \A v \in EntriesOf(obj, id) : userId <= v

\* socket.on("disconnect"): the loop deletes the first entry of the socket and breaks
NotifDisconnect(s) ==
    /\ notifSockets[s] = "open"
    /\ notifSockets' = [notifSockets EXCEPT ![s] = "closed"]
    /\ connectedUsers' = IF EntriesOf(connectedUsers, s) = {}
                         THEN connectedUsers
                         ELSE MapDelete(connectedUsers, FirstEntryOf(connectedUsers, s))
    /\ UNCHANGED <<input, output>>
    /\ UNCHANGED chatVars

NextNotif ==
    \/ \E s \in Conns : NotifConnection(s)
    \/ \E s \in Conns, userId \in UserIds : Register(s, userId)
    \/ \E s \in Conns : NotifDisconnect(s)

SpecNotif == Init /\ [][NextNotif]_vars

\* C37: after a socket's disconnect has been processed, no entry of connectedUsers
\* maps a userId to that socket's id, whatever register events were sent before.
NoEntryOfClosedSocket ==
    \A s \in Conns :
        notifSockets[s] = "closed" => EntriesOf(connectedUsers, s) = {}

\* ---------------------------------------------------------------------------
\* sanitizeInput taken alone.

MaxInputLen == 4
\* every string of up to MaxInputLen characters over a letter and the white space
ShortInputs == UNION {[1..n -> Whitespace \cup {"x"}] : n \in 0..MaxInputLen}

\* strings longer than MAX_MESSAGE_LENGTH once trimmed, with and without white space
\* at the limit
LongInputs ==
    { Rep("x", MAX_MESSAGE_LENGTH + 1),
      <<" ">> \o Rep("x", MAX_MESSAGE_LENGTH) \o <<"y", " ">>,
      Rep("x", MAX_MESSAGE_LENGTH - 1) \o <<" ", "y">>,
      Rep("x", MAX_MESSAGE_LENGTH - 2) \o <<"\n", " ", "y">> }

SanitizeInputs == ShortInputs \cup LongInputs

\* a string is about to be handed to sanitizeInput
SanitizeInit ==
    /\ conn = [c \in Conns |-> "new"]
    /\ isLaravelClient = [c \in Conns |-> FALSE]
    /\ dataBuffer = [c \in Conns |-> <<>>]
    /\ sioRooms = [c \in Conns |-> {}]
    /\ users = EmptyMap
    /\ rooms = EmptyMap
    /\ messageHistory = EmptyMap
    /\ laravelSockets = {}
    /\ timers = {}
    /\ now = 0
    /\ appended = EmptyMap
    /\ last = [op |-> "init", conn |-> 0, room |-> <<>>, result |-> "init"]
    /\ emitted = <<>>
    /\ budget = MaxSteps
    /\ connectedUsers = EmptyMap
    /\ notifSockets = [s \in Conns |-> "new"]
    /\ input \in SanitizeInputs
    /\ output = Undefined

\* the call sanitizeInput(input)
Sanitize ==
    /\ output = Undefined
    /\ output' = sanitizeInput(input)
    /\ UNCHANGED <<input, connectedUsers, notifSockets>>
    /\ UNCHANGED chatVars

\* the returned string is handed to sanitizeInput again
Resubmit ==
    /\ output # Undefined
    /\ input' = output
    /\ output' = Undefined
    /\ UNCHANGED <<connectedUsers, notifSockets>>
    /\ UNCHANGED chatVars

NextSanitize == Sanitize \/ Resubmit

SpecSanitize == SanitizeInit /\ [][NextSanitize]_vars

\* C38: the string sanitizeInput returns has no leading and no trailing white space,
\* and sanitizeInput maps it to itself, for every input string, those longer than the
\* limit included.
SanitizedIsTrimmedAndStable ==
    output # Undefined =>
        /\ output = <<>> \/ (Head(output) \notin Whitespace
                             /\ output[Len(output)] \notin Whitespace)
        /\ sanitizeInput(output) = output
====
